---- MODULE Spec2Model ----
(***************************************************************************)
(* A model of the coordination substrate of vae_lm: the rank gate          *)
(* (utils/base.py), the logging sinks (utils/logging.py), the archive      *)
(* packer / unpacker and the configure_world wrapper (training/utils.py).  *)
(***************************************************************************)
EXTENDS Integers, Sequences, FiniteSets, TLC

VARIABLES
    env,              \* os.environ of each process: RANK and LOCAL_RANK
    rank,             \* run_on_rank_zero.rank of each process (Unset before import)
    resolved,         \* how many times each process evaluated _get_rank
    pc,               \* position of each process
    logger_use_wandb, \* the attribute logger.use_wandb of each process
    is_watched,       \* per process: wandb_watch._is_watched
    calls,            \* per process: the calls made to rank-gated functions (a set)
    events,           \* per process: the side effects of the wrapper itself, in order
    sunk,             \* per process: the side effects of the gated functions (a set)
    error,            \* per process: what the run function raised, if anything
    result,           \* per process: the local variable result of the wrapper
    outcome,          \* per process: how the wrapper ended (returned / raised)
    fs,               \* files present under the serialization directory (shared)
    archives,         \* content of every archive output path (shared)
    captures,         \* files under error-batches/ (shared): name -> content
    persisted,        \* per process: torch.save calls done by SaveBatchHandler.emit
    clock,            \* wall clock, in ticks
    use_wandb,        \* config["use_wandb"] of the job
    serialization_dir,\* config["serialization_dir"] of the job
    content,          \* the text of config.json and of metrics.json of the job
    pk,               \* the archive_model call of the packer scenario
    up                \* the load_archive call of the unpacker scenario

vars == <<env, rank, resolved, pc, logger_use_wandb, is_watched, calls, events, sunk, error,
          result, outcome, fs, archives, captures, persisted, clock, use_wandb, serialization_dir,
          content, pk, up>>

procVars == <<env, rank, resolved, pc, logger_use_wandb, is_watched, calls, events, sunk, error,
             result, outcome>>
jobVars == <<use_wandb, serialization_dir, content>>
sinkVars == <<captures, persisted, clock>>

----------------------------------------------------------------------------
(* Bounds *)

NProcs == 2        \* cooperating processes, process_rank 0 .. NProcs-1
MaxClock == 2      \* ticks the wall clock may advance
TicksPerMinute == 2 \* clock ticks in one minute (the clock is finer than the stamp)
MaxMembers == 2    \* members of an archive given to load_archive

Procs == 0 .. (NProcs - 1)

----------------------------------------------------------------------------
(* Values *)

None == "None"

\* run_on_rank_zero has no attribute rank before base.py:32 ran
Unset == -1
\* a local variable that was never assigned
Unbound == "Unbound"

\* str(n) and int(s) for the small non-negative integers used as ranks
Digits == <<"0", "1", "2", "3", "4", "5", "6", "7", "8", "9">>
str(n) == Digits[n + 1]
int(s) == CHOOSE n \in 0 .. 9 : Digits[n + 1] = s

\* the values a launcher may give to RANK / LOCAL_RANK
EnvVals == {None, "0", "1"}

CONFIG_NAME == "config.json"
WEIGHTS_NAME == "weights.pt"
METRICS_NAME == "metrics.json"

----------------------------------------------------------------------------
(* utils/base.py: the rank gate *)

\* _get_rank with the two keys looked up in the other order
_get_rank_local_first(e) ==
    IF e.LOCAL_RANK # None THEN int(e.LOCAL_RANK)
    ELSE IF e.RANK # None THEN int(e.RANK)
    ELSE 0

\* _get_rank: the first of RANK, LOCAL_RANK that is set, as an integer; else 0
_get_rank(e) ==
    IF e.RANK # None THEN int(e.RANK)
    ELSE IF e.LOCAL_RANK # None THEN int(e.LOCAL_RANK)
    ELSE 0

\* a gate that lets every rank through
run_on_rank_zero_any_rank(r, res) == [executed |-> TRUE, ret |-> res]

\* run_on_rank_zero.wrapper: whether the wrapped function runs, and what the
\* call returns (res is what the wrapped function would return)
run_on_rank_zero(r, res) ==
    IF r = 0 THEN [executed |-> TRUE, ret |-> res]
    ELSE [executed |-> FALSE, ret |-> None]

\* the record of one call of a gated function fn in a process of gate rank r
GatedCall(fn, r) ==
    LET g == run_on_rank_zero(r, None)   \* every gated function returns None
    IN [fn |-> fn, executed |-> g.executed, ret |-> g.ret]

----------------------------------------------------------------------------
(* utils/logging.py: the sinks, and loguru's dispatch to them *)

LevelNo == [DEBUG |-> 1, INFO |-> 2, ERROR |-> 3]

\* Filter(type="has_attr", condition=attr): the record carries the extra field
Filter(attr, rec) == attr \in rec.extra

\* setup_logging: the three sinks, in registration order
RichExceptionHandler == [name |-> "RichExceptionHandler", level |-> "ERROR", attr |-> None]
SaveBatchHandler == [name |-> "SaveBatchHandler", level |-> "DEBUG", attr |-> "batch"]
WandBLoggingHandler == [name |-> "WandBLoggingHandler", level |-> "DEBUG", attr |-> "metrics"]

\* loguru hands a record to a sink when its level and its filter accept it
Accepts(h, rec) ==
    /\ LevelNo[rec.level] >= LevelNo[h.level]
    /\ (h.attr = None \/ Filter(h.attr, rec))

\* does the sink's emit body run for this record in a process of gate rank r
Emits(h, rec, r) == Accepts(h, rec) /\ run_on_rank_zero(r, None).executed

\* the gated calls a record causes, in registration order
DispatchCalls(rec, r) ==
    LET one(h) == IF Accepts(h, rec) THEN <<GatedCall(h.name, r)>> ELSE <<>>
    IN one(RichExceptionHandler) \o one(SaveBatchHandler) \o one(WandBLoggingHandler)

\* the sinks with a WandBLoggingHandler that does not look at logger.use_wandb
DispatchEvents_no_flag(rec, r, luw) ==
    (IF Emits(RichExceptionHandler, rec, r) THEN <<"console.print_exception">> ELSE <<>>)
    \o (IF Emits(SaveBatchHandler, rec, r) THEN <<"torch.save">> ELSE <<>>)
    \o (IF Emits(WandBLoggingHandler, rec, r) THEN <<"wandb.log">> ELSE <<>>)

\* the side effects a record causes (luw: logger.use_wandb of the process)
DispatchEvents(rec, r, luw) ==
    (IF Emits(RichExceptionHandler, rec, r) THEN <<"console.print_exception">> ELSE <<>>)
    \o (IF Emits(SaveBatchHandler, rec, r) THEN <<"torch.save">> ELSE <<>>)
    \o (IF Emits(WandBLoggingHandler, rec, r) /\ luw THEN <<"wandb.log">> ELSE <<>>)

\* Path.stem: the final component without its last suffix
stem(path) == path.base

\* time.strftime("%d-%m-%Y_%H-%M"): the clock cut to the minute
strftime(t) == t \div TicksPerMinute

\* SaveBatchHandler.emit body: the file it writes, and the content
SaveFile(rec, t) == [dir |-> rec.serialization_dir, stamp |-> strftime(t)]
SaveContent(rec) == [message |-> rec.message, batch |-> rec.batch]

\* the captures after the record went through the sinks
DispatchCaptures(cap, rec, r, t) ==
    IF Emits(SaveBatchHandler, rec, r)
    THEN (SaveFile(rec, t) :> SaveContent(rec)) @@ cap
    ELSE cap

----------------------------------------------------------------------------
(* training/utils.py: archive_model *)

\* the artifacts of a job, as paths relative to the serialization directory
BestModel == "best-model"
WeightsFile == "best-model/model.pt"
MetricsFile == "best-model/metrics.json"
ConfigFile == "config.json"
Vocabulary == "vocabulary"
Artifacts == {BestModel, WeightsFile, MetricsFile, ConfigFile, Vocabulary}

\* a file under a directory exists only if the directory does
WellFormed(files) ==
    (WeightsFile \in files \/ MetricsFile \in files) => BestModel \in files

\* the output paths a pack may resolve to, and the archive_path arguments
DefaultArchive == "serialization_dir/model.tar.gz"
OutPaths == {DefaultArchive, "out.tar.gz", "outdir/model.tar.gz"}
ArchivePaths == {None, "out.tar.gz", "outdir"}
is_dir(path) == path = "outdir"

\* a file at an output path
NoFile == [exists |-> FALSE, members |-> <<>>, complete |-> FALSE]
StaleFile == [exists |-> TRUE, members |-> <<[arcname |-> "stale", src |-> "stale"]>>,
              complete |-> TRUE]

\* the four members, each stored under the name of its source file
Adds_source_names ==
    << [arcname |-> "config.json", src |-> ConfigFile],
       [arcname |-> "model.pt", src |-> WeightsFile],
       [arcname |-> "metrics.json", src |-> MetricsFile],
       [arcname |-> "vocabulary", src |-> Vocabulary] >>

\* the four archive.add calls of archive_model, in order
Adds ==
    << [arcname |-> CONFIG_NAME, src |-> ConfigFile],
       [arcname |-> WEIGHTS_NAME, src |-> WeightsFile],
       [arcname |-> METRICS_NAME, src |-> MetricsFile],
       [arcname |-> "vocabulary", src |-> Vocabulary] >>

\* how many archive.add calls succeed before one finds its source missing
RECURSIVE Added(_, _)
Added(files, i) ==
    IF i > Len(Adds) \/ Adds[i].src \notin files THEN i - 1
    ELSE Added(files, i + 1)

\* the path archive_model writes to
ArchiveFile(archive_path) ==
    IF archive_path # None
    THEN (IF is_dir(archive_path) THEN "outdir/model.tar.gz" ELSE archive_path)
    ELSE DefaultArchive

\* archive_model without the early return on a missing weights file
archive_model_no_weights_return(files, arch, archive_path) ==
    IF WeightsFile \in files /\ MetricsFile \notin files
    THEN [archives |-> arch, outcome |-> "returned", logged |-> "metrics"]
    ELSE LET n == Added(files, 1)
             written == [exists |-> TRUE,
                         members |-> SubSeq(Adds, 1, n),
                         complete |-> n = Len(Adds)]
         IN [archives |-> [arch EXCEPT ![ArchiveFile(archive_path)] = written],
             outcome |-> IF n = Len(Adds) THEN "returned" ELSE "raised",
             logged |-> IF WeightsFile \notin files THEN "weights" ELSE None]

\* archive_model(serialization_dir, weights=best-model, archive_path): the output
\* paths afterwards and how the call ended
archive_model(files, arch, archive_path) ==
    IF WeightsFile \notin files
    THEN [archives |-> arch, outcome |-> "returned", logged |-> "weights"]
    ELSE IF MetricsFile \notin files
    THEN [archives |-> arch, outcome |-> "returned", logged |-> "metrics"]
    ELSE LET n == Added(files, 1)
             written == [exists |-> TRUE,
                         members |-> SubSeq(Adds, 1, n),
                         complete |-> n = Len(Adds)]
         IN [archives |-> [arch EXCEPT ![ArchiveFile(archive_path)] = written],
             outcome |-> IF n = Len(Adds) THEN "returned" ELSE "raised",
             logged |-> IF ConfigFile \notin files THEN "config" ELSE None]

----------------------------------------------------------------------------
(* The processes of a job: module import, setup_logging, configure_world *)

\* TorchBatchError(message, batch) raised in process p; any other exception
Errors == {"TorchBatchError", "Exception"}
BatchOf(p) == <<"batch", p>>

Range(seq) == {seq[i] : i \in DOMAIN seq}
Count(seq, x) == Cardinality({i \in DOMAIN seq : seq[i] = x})

\* import of vae_lm.utils.base: run_on_rank_zero.rank is resolved (base.py:32)
LoadModule(p) ==
    /\ pc[p] = "start"
    /\ rank' = [rank EXCEPT ![p] = IF rank[p] = Unset THEN _get_rank(env[p]) ELSE rank[p]]
    /\ resolved' = [resolved EXCEPT ![p] = @ + 1]
    /\ pc' = [pc EXCEPT ![p] = "loaded"]
    /\ UNCHANGED <<env, logger_use_wandb, is_watched, calls, events, sunk, error, result, outcome>>
    /\ UNCHANGED <<fs, archives, sinkVars, jobVars, pk, up>>

\* any code of the process writing RANK or LOCAL_RANK into os.environ
PutEnv(p) ==
    /\ pc[p] # "start"
    /\ \E k \in {"RANK", "LOCAL_RANK"}, v \in EnvVals :
          /\ env[p][k] # v
          /\ env' = [env EXCEPT ![p][k] = v]
    /\ UNCHANGED <<rank, resolved, pc, logger_use_wandb, is_watched, calls, events, sunk, error,
                   result, outcome>>
    /\ UNCHANGED <<fs, archives, sinkVars, jobVars, pk, up>>

\* configure_world.wrapper, lines 195-213, in the process of process_rank p
WrapperEnter(p) ==
    LET is_master == p = 0
    IN /\ pc[p] = "loaded"
       /\ env' = [env EXCEPT ![p].LOCAL_RANK = str(p)]
       /\ logger_use_wandb' = [logger_use_wandb EXCEPT
                                  ![p] = IF is_master /\ use_wandb THEN TRUE ELSE @]
       /\ events' = [events EXCEPT
                        ![p] = IF is_master /\ use_wandb THEN Append(@, "wandb.init") ELSE @]
       /\ pc' = [pc EXCEPT ![p] = "running"]
       /\ UNCHANGED <<rank, resolved, is_watched, calls, sunk, error, result, outcome>>
       /\ UNCHANGED <<fs, archives, sinkVars, jobVars, pk, up>>

\* the run function calls log_metrics (training/utils.py:255-288)
log_metrics(p) ==
    LET g == GatedCall("log_metrics", rank[p])
        rec == [level |-> "DEBUG", extra |-> {"metrics"}]
    IN /\ pc[p] = "running"
       /\ calls' = [calls EXCEPT
                       ![p] = IF g.executed
                              THEN @ \cup {g} \cup Range(DispatchCalls(rec, rank[p]))
                              ELSE @ \cup {g}]
       /\ sunk' = [sunk EXCEPT
                      ![p] = IF g.executed
                             THEN @ \cup {"console.metrics"}
                                    \cup Range(DispatchEvents(rec, rank[p],
                                                              logger_use_wandb[p]))
                             ELSE @]
       /\ UNCHANGED <<env, rank, resolved, pc, logger_use_wandb, is_watched, events, error, result,
                      outcome>>
       /\ UNCHANGED <<fs, archives, sinkVars, jobVars, pk, up>>

\* the run function calls a method decorated with wandb_watch: _set_watch
\* (utils/base.py:49-54)
_set_watch(p) ==
    LET g == GatedCall("_set_watch", rank[p])
        watches == g.executed /\ ~is_watched[p] /\ logger_use_wandb[p]
    IN /\ pc[p] = "running"
       /\ calls' = [calls EXCEPT ![p] = @ \cup {g}]
       /\ sunk' = [sunk EXCEPT ![p] = IF watches THEN @ \cup {"wandb.watch"} ELSE @]
       /\ is_watched' = [is_watched EXCEPT ![p] = IF watches THEN TRUE ELSE @]
       /\ UNCHANGED <<env, rank, resolved, pc, logger_use_wandb, events, error, result,
                      outcome>>
       /\ UNCHANGED <<fs, archives, sinkVars, jobVars, pk, up>>

\* configure_world.wrapper, lines 215-216: the run function returns its result
RunReturns(p) ==
    /\ pc[p] = "running"
    /\ result' = [result EXCEPT ![p] = "func_result"]
    /\ pc' = [pc EXCEPT ![p] = "finally"]
    /\ UNCHANGED <<env, rank, resolved, logger_use_wandb, is_watched, calls, events, sunk, error,
                   outcome>>
    /\ UNCHANGED <<fs, archives, sinkVars, jobVars, pk, up>>

\* the records the except clause logs: the bound debug record of a
\* TorchBatchError (lines 219-222), then logger.error(error) (line 223)
ErrorRecords(p, e, dir) ==
    (IF e = "TorchBatchError"
     THEN << [level |-> "DEBUG", extra |-> {"batch", "serialization_dir", "message"},
              serialization_dir |-> stem(dir), message |-> "bad batch",
              batch |-> BatchOf(p)] >>
     ELSE <<>>)
    \o << [level |-> "ERROR", extra |-> {}] >>

\* the captures after a sequence of records went through the sinks, one by one
RECURSIVE CapturesAfter(_, _, _, _)
CapturesAfter(cap, recs, r, t) ==
    IF recs = <<>> THEN cap
    ELSE CapturesAfter(DispatchCaptures(cap, Head(recs), r, t), Tail(recs), r, t)

\* the gated calls and the side effects of a sequence of records
RECURSIVE CallsOf(_, _)
CallsOf(recs, r) ==
    IF recs = <<>> THEN <<>> ELSE DispatchCalls(Head(recs), r) \o CallsOf(Tail(recs), r)

RECURSIVE EventsOf(_, _, _)
EventsOf(recs, r, luw) ==
    IF recs = <<>> THEN <<>>
    ELSE DispatchEvents(Head(recs), r, luw) \o EventsOf(Tail(recs), r, luw)

\* configure_world.wrapper, lines 217-224: the run function raises e
RunRaises(p, e) ==
    LET recs == ErrorRecords(p, e, serialization_dir)
        evs == EventsOf(recs, rank[p], logger_use_wandb[p])
    IN /\ pc[p] = "running"
       /\ error' = [error EXCEPT ![p] = e]
       /\ calls' = [calls EXCEPT ![p] = @ \cup Range(CallsOf(recs, rank[p]))]
       /\ sunk' = [sunk EXCEPT ![p] = @ \cup Range(evs)]
       /\ captures' = CapturesAfter(captures, recs, rank[p], clock)
       /\ persisted' = [persisted EXCEPT ![p] = @ + Count(evs, "torch.save")]
       /\ result' = [result EXCEPT ![p] = "{}"]
       /\ pc' = [pc EXCEPT ![p] = "finally"]
       /\ UNCHANGED <<env, rank, resolved, logger_use_wandb, is_watched, events, outcome>>
       /\ UNCHANGED <<fs, archives, clock, jobVars, pk, up>>

\* configure_world.wrapper, lines 225-241: the finally block and the return
Finalize(p) ==
    LET is_master == p = 0
        best == BestModel \in fs
        packs == is_master /\ best
        packed == archive_model(fs, archives, None)
        failed == packs /\ packed.outcome = "raised"
        tracker == IF is_master /\ use_wandb /\ ~failed
                   THEN (IF best THEN <<"wandb.save">> ELSE <<>>) \o <<"wandb.finish">>
                   ELSE <<>>
    IN /\ pc[p] = "finally"
       /\ archives' = IF packs THEN packed.archives ELSE archives
       /\ events' = [events EXCEPT
                        ![p] = @ \o (IF packs THEN <<"archive_model">> ELSE <<>>) \o tracker]
       /\ outcome' = [outcome EXCEPT ![p] = IF failed THEN "raised" ELSE "returned"]
       /\ pc' = [pc EXCEPT ![p] = "done"]
       /\ UNCHANGED <<env, rank, resolved, logger_use_wandb, is_watched, calls, sunk, error, result>>
       /\ UNCHANGED <<fs, sinkVars, jobVars, pk, up>>

\* the wall clock advances
Tick ==
    /\ clock < MaxClock
    /\ clock' = clock + 1
    /\ UNCHANGED <<procVars, fs, archives, captures, persisted, jobVars, pk, up>>

\* the serialization directories a job may be configured with
SerDirs ==
    { [parent |-> "runs", base |-> "job", suffix |-> ""],
      [parent |-> "runs", base |-> "exp", suffix |-> ".v2"] }

\* what a launcher puts into the environment of the process of process_rank p:
\*   spawn      nothing (torch.multiprocessing.spawn)
\*   elastic    RANK and LOCAL_RANK, both the process rank (single node)
\*   local      only LOCAL_RANK
\*   node       RANK is the global rank on a second node, LOCAL_RANK the process rank
Launchers == {"spawn", "elastic", "local", "node"}
LaunchEnv(l, p) ==
    CASE l = "spawn" -> [RANK |-> None, LOCAL_RANK |-> None]
      [] l = "elastic" -> [RANK |-> str(p), LOCAL_RANK |-> str(p)]
      [] l = "local" -> [RANK |-> None, LOCAL_RANK |-> str(p)]
      [] l = "node" -> [RANK |-> str(NProcs + p), LOCAL_RANK |-> str(p)]

Idle == [state |-> "idle"]

\* the text of a JSON file: its key / value pairs, in the order written
DefaultContent == [config |-> << <<"lr", 1>> >>, metrics |-> << <<"loss", 2>> >>]

\* the state of every process before it starts
InitProcs ==
    /\ rank = [p \in Procs |-> Unset]
    /\ resolved = [p \in Procs |-> 0]
    /\ pc = [p \in Procs |-> "start"]
    /\ logger_use_wandb = [p \in Procs |-> FALSE]
    /\ is_watched = [p \in Procs |-> FALSE]
    /\ calls = [p \in Procs |-> {}]
    /\ events = [p \in Procs |-> <<>>]
    /\ sunk = [p \in Procs |-> {}]
    /\ error = [p \in Procs |-> None]
    /\ result = [p \in Procs |-> Unbound]
    /\ outcome = [p \in Procs |-> "pending"]
    /\ persisted = [p \in Procs |-> 0]
    /\ captures = <<>>

\* a job of NProcs processes started by one launcher
Init ==
    /\ InitProcs
    /\ \E l \in Launchers : env = [p \in Procs |-> LaunchEnv(l, p)]
    /\ fs \in {f \in SUBSET Artifacts : WellFormed(f)}
    /\ archives = [o \in OutPaths |-> NoFile]
    /\ clock = 0
    /\ use_wandb \in BOOLEAN
    /\ serialization_dir = [parent |-> "runs", base |-> "exp", suffix |-> ".v2"]
    /\ content = DefaultContent
    /\ pk = Idle
    /\ up = Idle

Next ==
    \/ \E p \in Procs : LoadModule(p)
    \/ \E p \in Procs : WrapperEnter(p)
    \/ \E p \in Procs : log_metrics(p)
    \/ \E p \in Procs : RunReturns(p)
    \/ \E p \in Procs, e \in Errors : RunRaises(p, e)
    \/ \E p \in Procs : Finalize(p)

Spec == Init /\ [][Next]_vars

\* the same job when every process keeps running: a process is one thread of
\* straight-line code, and the run function ends, by returning or by raising
Fairness ==
    \A p \in Procs :
        /\ WF_vars(LoadModule(p))
        /\ WF_vars(WrapperEnter(p))
        /\ WF_vars(RunReturns(p) \/ \E e \in Errors : RunRaises(p, e))
        /\ WF_vars(Finalize(p))

SpecLive == Spec /\ Fairness

----------------------------------------------------------------------------
(* The rank gate under any environment: every process starts with any     *)
(* RANK / LOCAL_RANK and its environment may be rewritten at any time     *)

InitGate ==
    /\ InitProcs
    /\ env \in [Procs -> [RANK : EnvVals, LOCAL_RANK : EnvVals]]
    /\ fs = {}
    /\ archives = [o \in OutPaths |-> NoFile]
    /\ clock = 0
    /\ use_wandb = TRUE
    /\ serialization_dir = [parent |-> "runs", base |-> "job", suffix |-> ""]
    /\ content = DefaultContent
    /\ pk = Idle
    /\ up = Idle

NextGate ==
    \/ \E p \in Procs : LoadModule(p)
    \/ \E p \in Procs : PutEnv(p)
    \/ \E p \in Procs : WrapperEnter(p)
    \/ \E p \in Procs : log_metrics(p)

SpecGate == InitGate /\ [][NextGate]_vars

----------------------------------------------------------------------------
(* The capture sink over time: failing runs of one job while the clock runs *)

InitCapture ==
    /\ InitProcs
    /\ \E l \in Launchers : env = [p \in Procs |-> LaunchEnv(l, p)]
    /\ fs = {}
    /\ archives = [o \in OutPaths |-> NoFile]
    /\ clock = 0
    /\ use_wandb = FALSE
    /\ serialization_dir \in SerDirs
    /\ content = DefaultContent
    /\ pk = Idle
    /\ up = Idle

NextCapture ==
    \/ \E p \in Procs : LoadModule(p)
    \/ \E p \in Procs : WrapperEnter(p)
    \/ \E p \in Procs : RunReturns(p)
    \/ \E p \in Procs, e \in Errors : RunRaises(p, e)
    \/ \E p \in Procs : Finalize(p)
    \/ Tick

SpecCapture == InitCapture /\ [][NextCapture]_vars

----------------------------------------------------------------------------
(* The packer alone: archive_model called on any state of the directories *)

\* a call archive_model(serialization_dir, best-model, archive_path)
Pack(archive_path) ==
    LET r == archive_model(fs, archives, archive_path)
    IN /\ pk' = [state |-> "done", archive_path |-> archive_path, files |-> fs,
                 before |-> archives, outcome |-> r.outcome, logged |-> r.logged]
       /\ archives' = r.archives
       /\ UNCHANGED <<procVars, fs, sinkVars, jobVars, up>>

\* the training run writes an artifact into the serialization directory
WriteArtifact(a) ==
    /\ a \notin fs
    /\ WellFormed(fs \cup {a})
    /\ fs' = fs \cup {a}
    /\ UNCHANGED <<procVars, archives, sinkVars, jobVars, pk, up>>

InitPack ==
    /\ InitProcs
    /\ env = [p \in Procs |-> [RANK |-> None, LOCAL_RANK |-> None]]
    /\ fs \in {f \in SUBSET Artifacts : WellFormed(f)}
    /\ archives \in [OutPaths -> {NoFile, StaleFile}]
    /\ clock = 0
    /\ use_wandb = FALSE
    /\ serialization_dir = [parent |-> "runs", base |-> "job", suffix |-> ""]
    /\ content = DefaultContent
    /\ pk = Idle
    /\ up = Idle

NextPack ==
    \/ \E ap \in ArchivePaths : Pack(ap)
    \/ \E a \in Artifacts : WriteArtifact(a)

SpecPack == InitPack /\ [][NextPack]_vars

----------------------------------------------------------------------------
(* Every rank-gated function of the repository, called in the processes    *)
(* of a job                                                                *)

InitCalls ==
    /\ InitProcs
    /\ \E l \in Launchers : env = [p \in Procs |-> LaunchEnv(l, p)]
    /\ fs = {}
    /\ archives = [o \in OutPaths |-> NoFile]
    /\ clock = 0
    /\ use_wandb \in BOOLEAN
    /\ serialization_dir \in SerDirs
    /\ content = DefaultContent
    /\ pk = Idle
    /\ up = Idle

NextCalls ==
    \/ \E p \in Procs : LoadModule(p)
    \/ \E p \in Procs : WrapperEnter(p)
    \/ \E p \in Procs : log_metrics(p)
    \/ \E p \in Procs : _set_watch(p)
    \/ \E p \in Procs, e \in Errors : RunRaises(p, e)

SpecCalls == InitCalls /\ [][NextCalls]_vars

----------------------------------------------------------------------------
(* training/utils.py: extracted_archive and load_archive.  Paths are       *)
(* sequences of characters, as os.path sees them                           *)

Sep == "/"

\* os.path.join(path, name)
join(path, name) ==
    IF name # <<>> /\ Head(name) = Sep THEN name
    ELSE IF path = <<>> \/ path[Len(path)] = Sep THEN path \o name
    ELSE path \o <<Sep>> \o name

\* the components of a path: the text between separators
RECURSIVE Components(_, _, _)
Components(s, i, cur) ==
    IF i > Len(s) THEN <<cur>>
    ELSE IF s[i] = Sep THEN <<cur>> \o Components(s, i + 1, <<>>)
    ELSE Components(s, i + 1, Append(cur, s[i]))

\* os.path.normpath on the components of an absolute path: empty and "."
\* components are dropped, ".." drops the component before it
RECURSIVE Collapse(_, _)
Collapse(comps, stack) ==
    IF comps = <<>> THEN stack
    ELSE LET c == Head(comps)
         IN IF c = <<>> \/ c = <<".">> THEN Collapse(Tail(comps), stack)
            ELSE IF c = <<".", ".">>
            THEN Collapse(Tail(comps),
                          IF stack = <<>> THEN stack ELSE SubSeq(stack, 1, Len(stack) - 1))
            ELSE Collapse(Tail(comps), Append(stack, c))

RECURSIVE Joined(_)
Joined(stack) ==
    IF stack = <<>> THEN <<>> ELSE <<Sep>> \o Head(stack) \o Joined(Tail(stack))

\* os.path.abspath of an absolute path
abspath(path) ==
    LET stack == Collapse(Components(path, 1, <<>>), <<>>)
    IN IF stack = <<>> THEN <<Sep>> ELSE Joined(stack)

\* os.path.commonprefix of two strings: the longest common leading characters
RECURSIVE commonprefix(_, _)
commonprefix(a, b) ==
    IF a = <<>> \/ b = <<>> \/ Head(a) # Head(b) THEN <<>>
    ELSE <<Head(a)>> \o commonprefix(Tail(a), Tail(b))

\* extracted_archive.is_within_directory
is_within_directory(directory, target) ==
    LET abs_directory == abspath(directory)
        abs_target == abspath(target)
        prefix == commonprefix(abs_directory, abs_target)
    IN prefix = abs_directory

\* target is directory itself or lies below it
Descendant(directory, target) ==
    LET d == Collapse(Components(directory, 1, <<>>), <<>>)
        t == Collapse(Components(target, 1, <<>>), <<>>)
    IN Len(d) <= Len(t) /\ SubSeq(t, 1, Len(d)) = d

\* tar.extractall(path): the members written, in order, and whether it raised.
\* With the filter "fully_trusted" (the default before Python 3.14) every member
\* is written where its name leads; with "data" the first member that leaves
\* path raises and the members before it stay written
ExtractionFilters == {"fully_trusted", "data"}

extractall(members, path, filter) ==
    LET outside == {i \in DOMAIN members : ~Descendant(path, join(path, members[i]))}
        stop == IF filter = "data" /\ outside # {}
                THEN CHOOSE i \in outside : \A j \in outside : i <= j
                ELSE Len(members) + 1
    IN [raised |-> stop <= Len(members),
        extracted |-> {abspath(join(path, members[i])) : i \in 1 .. (stop - 1)}]

\* safe_extract: every member is validated, then tar.extractall runs
safe_extract(members, path, filter) ==
    IF \E i \in DOMAIN members : ~is_within_directory(path, join(path, members[i]))
    THEN [raised |-> TRUE, extracted |-> {}]
    ELSE extractall(members, path, filter)

\* shutil.rmtree(tempdir): what is left of the written files
rmtree(tempdir, files) == {f \in files : ~Descendant(tempdir, f)}

\* extracted_archive(resolved_archive_file, cleanup) up to the end of the with
\* block of its caller: tmp is what tempfile.mkdtemp returns
extracted_archive(input, tmp, cleanup, filter) ==
    LET opened == input.kind = "tar"          \* tarfile.open raises otherwise
        ex == IF opened THEN safe_extract(input.members, tmp, filter)
              ELSE [raised |-> TRUE, extracted |-> {}]
    IN [raised |-> ex.raised,
        tempdir |-> tmp,
        extracted |-> ex.extracted,
        temp_exists |-> ~cleanup,
        files |-> IF cleanup THEN rmtree(tmp, ex.extracted) ELSE ex.extracted]

\* load_archive(archive_file): fail is the step after extraction that raises
\* ("config": Params.from_file, "metrics": json.load, "model": VAELmModel.load)
load_archive(input, tmp, fail, filter) ==
    IF input.kind = "dir"
    THEN [tempdir |-> None, created |-> FALSE, temp_exists |-> FALSE,
          dir_exists |-> TRUE, extracted |-> {}, files |-> {},
          outcome |-> IF fail = None THEN "returned" ELSE "raised",
          error |-> fail]
    ELSE LET ex == extracted_archive(input, tmp, FALSE, filter)
         IN IF ex.raised
            THEN \* the with statement never bound tempdir: the finally removes nothing
                 [tempdir |-> None, created |-> TRUE, temp_exists |-> ex.temp_exists,
                  dir_exists |-> FALSE, extracted |-> ex.extracted, files |-> ex.files,
                  outcome |-> "raised", error |-> "extract"]
            ELSE [tempdir |-> ex.tempdir, created |-> TRUE, temp_exists |-> FALSE,
                  dir_exists |-> FALSE, extracted |-> ex.extracted,
                  files |-> rmtree(ex.tempdir, ex.files),
                  outcome |-> IF fail = None THEN "returned" ELSE "raised",
                  error |-> fail]

\* the names tempfile.mkdtemp may return
TempNames ==
    { <<"/", "t", "m", "p", "/", "k", "7">>,
      <<"/", "t", "m", "p", "/", "k", "7", "q">> }

\* member names of the archives given to load_archive
MemberNames ==
    { <<"x">>,
      <<"s", "/", ".", ".", "/", "x">>,
      <<".", ".", "/", "b", "/", "x">>,
      <<".", ".", "/", "k", "7", "q", "/", "x">>,
      <<"/", "e">> }

RECURSIVE SeqsUpTo(_, _)
SeqsUpTo(S, n) ==
    IF n = 0 THEN {<<>>}
    ELSE LET shorter == SeqsUpTo(S, n - 1)
         IN shorter \cup {Append(q, x) : q \in shorter, x \in S}

Inputs ==
    {[kind |-> "dir", members |-> <<>>], [kind |-> "corrupt", members |-> <<>>]}
    \cup {[kind |-> "tar", members |-> m] : m \in SeqsUpTo(MemberNames, MaxMembers)}

Failures == {None, "config", "metrics", "model"}

\* a call load_archive(archive_file), on a disk no earlier call has written to
LoadArchive(input, tmp, fail, filter) ==
    /\ up.state = "idle"
    /\ up' = [state |-> "done", input |-> input, tmp |-> tmp, filter |-> filter,
              call |-> load_archive(input, tmp, fail, filter)]
    /\ UNCHANGED <<procVars, fs, archives, sinkVars, jobVars, pk>>

InitUnpack ==
    /\ InitProcs
    /\ env = [p \in Procs |-> [RANK |-> None, LOCAL_RANK |-> None]]
    /\ fs = {}
    /\ archives = [o \in OutPaths |-> NoFile]
    /\ clock = 0
    /\ use_wandb = FALSE
    /\ serialization_dir = [parent |-> "runs", base |-> "job", suffix |-> ""]
    /\ content = DefaultContent
    /\ pk = Idle
    /\ up = Idle

NextUnpack ==
    \/ \E input \in Inputs, tmp \in TempNames, fail \in Failures,
          filter \in ExtractionFilters :
          LoadArchive(input, tmp, fail, filter)

SpecUnpack == InitUnpack /\ [][NextUnpack]_vars

----------------------------------------------------------------------------
(* Pack, then unpack: load_archive on the files archive_model wrote         *)

\* the texts a JSON file of the job may hold
JsonTexts ==
    { << <<"lr", 1>> >>,
      << <<"loss", 2>>, <<"lr", 1>> >>,
      << <<"lr", 1>>, <<"lr", 2>> >> }

\* json.load / Params.from_file: the text as a map; of two pairs with the same
\* key the later one counts
json_load(text) ==
    [k \in {text[i][1] : i \in DOMAIN text} |->
        text[CHOOSE i \in DOMAIN text :
                /\ text[i][1] = k
                /\ \A j \in DOMAIN text : j > i => text[j][1] # k][2]]

from_file(text) == json_load(text)

\* what a file of the serialization directory holds: the two JSON files hold
\* their text, the weights and the vocabulary are blobs named by their source
FileContent(src) ==
    CASE src = ConfigFile -> content.config
      [] src = MetricsFile -> content.metrics
      [] OTHER -> src

\* the member names of an archive, as the characters os.path sees
Spelling ==
    ("config.json" :> <<"c", "o", "n", "f", "i", "g", ".", "j", "s", "o", "n">>)
    @@ ("weights.pt" :> <<"w", "e", "i", "g", "h", "t", "s", ".", "p", "t">>)
    @@ ("metrics.json" :> <<"m", "e", "t", "r", "i", "c", "s", ".", "j", "s", "o", "n">>)
    @@ ("vocabulary" :> <<"v", "o", "c", "a", "b", "u", "l", "a", "r", "y">>)
    @@ ("model.pt" :> <<"m", "o", "d", "e", "l", ".", "p", "t">>)
    @@ ("stale" :> <<"s", "t", "a", "l", "e">>)

\* tarfile.open(archive_file, "r:gz") on a file at an output path: a file that
\* does not exist or holds no member does not open
TarInput(file) ==
    IF file.exists /\ file.members # <<>>
    THEN [kind |-> "tar", members |-> [i \in DOMAIN file.members |-> Spelling[file.members[i].arcname]]]
    ELSE [kind |-> "corrupt", members |-> <<>>]

\* the file at serialization_dir / name after the extraction into tmp: the
\* content of the last member written there, or None
ReadFile(file, extracted, tmp, name) ==
    LET path == abspath(join(tmp, Spelling[name]))
        at == {i \in DOMAIN file.members :
                  abspath(join(tmp, Spelling[file.members[i].arcname])) = path}
    IN IF path \in extracted /\ at # {}
       THEN FileContent(file.members[CHOOSE i \in at : \A j \in at : j <= i].src)
       ELSE None

\* the first step of load_archive after the extraction that raises, if any
\* (lines 125-136), given the files read from serialization_dir
LoadFailure(read) ==
    IF read[CONFIG_NAME] = None THEN "config"
    ELSE IF read[METRICS_NAME] = None THEN "metrics"
    ELSE IF read[WEIGHTS_NAME] = None \/ read["vocabulary"] = None THEN "model"
    ELSE None

\* Archive(model, config, metrics), lines 141-145
Archive(read) ==
    [config |-> from_file(read[CONFIG_NAME]),
     metrics |-> json_load(read[METRICS_NAME]),
     model |-> [weights |-> read[WEIGHTS_NAME], vocabulary |-> read["vocabulary"]]]

\* a call load_archive(o) on the file at the output path o
Unpack(o, tmp, filter) ==
    LET file == archives[o]
        input == TarInput(file)
        ex == extracted_archive(input, tmp, FALSE, filter)
        read == [n \in {CONFIG_NAME, WEIGHTS_NAME, METRICS_NAME, "vocabulary"} |->
                    IF ex.raised THEN None ELSE ReadFile(file, ex.extracted, tmp, n)]
        call == load_archive(input, tmp, LoadFailure(read), filter)
    IN /\ up.state = "idle"
       /\ up' = [state |-> "done", input |-> input, tmp |-> tmp, filter |-> filter,
                 call |-> call, path |-> o, packed |-> pk,
                 archive |-> IF call.outcome = "returned" THEN Archive(read) ELSE None]
       /\ UNCHANGED <<procVars, fs, archives, sinkVars, jobVars, pk>>

\* the one pack of a job, at its end (configure_world.wrapper, line 232)
PackOnce(archive_path) == pk.state = "idle" /\ Pack(archive_path)

InitRoundTrip ==
    /\ InitProcs
    /\ env = [p \in Procs |-> [RANK |-> None, LOCAL_RANK |-> None]]
    /\ fs \in {f \in SUBSET Artifacts : WellFormed(f)}
    /\ \E old \in {NoFile, StaleFile} : archives = [o \in OutPaths |-> old]
    /\ clock = 0
    /\ use_wandb = FALSE
    /\ serialization_dir = [parent |-> "runs", base |-> "job", suffix |-> ""]
    /\ content \in [config : JsonTexts, metrics : JsonTexts]
    /\ pk = Idle
    /\ up = Idle

NextRoundTrip ==
    \/ \E ap \in ArchivePaths : PackOnce(ap)
    \/ \E o \in OutPaths, tmp \in TempNames, filter \in ExtractionFilters : Unpack(o, tmp, filter)

SpecRoundTrip == InitRoundTrip /\ [][NextRoundTrip]_vars

----------------------------------------------------------------------------
(* Properties *)

FnsOf(p) == {c.fn : c \in calls[p]}
PackInputs == {WeightsFile, MetricsFile, ConfigFile, Vocabulary}

RECURSIVE SumOver(_, _)
SumOver(f, S) ==
    IF S = {} THEN 0
    ELSE LET x == CHOOSE y \in S : TRUE IN f[x] + SumOver(f, S \ {x})

\* C1: in every process, every call of a rank-gated function runs the wrapped
\* function exactly when the resolved rank of the process is 0; with any other
\* rank the function does not run, the call returns None and the process has
\* performed none of the gated side effects.
C1_GatedRunsIffRankZero ==
    \A p \in Procs :
        /\ \A c \in calls[p] : (c.executed <=> rank[p] = 0) /\ c.ret = None
        /\ rank[p] # 0 =>
              /\ sunk[p] = {}
              /\ persisted[p] = 0
              /\ ~is_watched[p]
              /\ \A f \in DOMAIN captures : captures[f].batch # BatchOf(p)
        /\ rank[p] = 0 =>
              /\ "log_metrics" \in FnsOf(p) => "console.metrics" \in sunk[p]
              /\ "RichExceptionHandler" \in FnsOf(p) => "console.print_exception" \in sunk[p]
              /\ "SaveBatchHandler" \in FnsOf(p) => persisted[p] = 1 /\ "torch.save" \in sunk[p]
              /\ "_set_watch" \in FnsOf(p) /\ logger_use_wandb[p] => is_watched[p]

\* C1 witness: a process of rank 0 ran a sink while a process of another rank
\* called the same sink and it did not run
C1_Witness ==
    \E p, q \in Procs :
        /\ rank[p] = 0 /\ rank[q] > 0
        /\ \E c \in calls[p] : c.fn = "SaveBatchHandler" /\ c.executed
        /\ \E c \in calls[q] : c.fn = "SaveBatchHandler" /\ ~c.executed
        /\ "log_metrics" \in FnsOf(q)

\* the rank the claim states: RANK if set, else LOCAL_RANK if set, else 0
ClaimedRank(e) ==
    CASE e.RANK # None -> int(e.RANK)
      [] e.RANK = None /\ e.LOCAL_RANK # None -> int(e.LOCAL_RANK)
      [] OTHER -> 0

\* C2: the rank of the gate is resolved once, as RANK if set, else LOCAL_RANK if
\* set, else 0, from the environment at that moment, and no later step changes
\* it: not a write to the environment, not configure_world setting LOCAL_RANK,
\* not a gated call.
C2_RankResolvedOnceAndFixed ==
    [][\A p \in Procs :
          /\ rank[p] # Unset => rank'[p] = rank[p] /\ resolved'[p] = resolved[p]
          /\ rank[p] = Unset /\ rank'[p] # Unset =>
                rank'[p] = ClaimedRank(env[p]) /\ resolved'[p] = 1]_vars

\* C2 witness: the wrapper of process_rank 1 has written LOCAL_RANK = "1" with
\* RANK unset, gated calls were made, and the gate still holds the rank 0 it
\* resolved at import
C2_Witness ==
    \E p \in Procs :
        /\ pc[p] = "running"
        /\ env[p] = [RANK |-> None, LOCAL_RANK |-> "1"]
        /\ rank[p] = 0
        /\ resolved[p] = 1
        /\ \E c \in calls[p] : c.executed

\* C4 (as claimed): a pack with any of its four inputs absent leaves every
\* output path as it was: no file created, no file modified.
C4_PackChecksAllFour ==
    (pk.state = "done" /\ ~(PackInputs \subseteq pk.files)) => archives = pk.before

C7_WrapperNeverRaises ==
    \A p \in Procs :
        pc[p] = "done" =>
            /\ outcome[p] = "returned"
            /\ result[p] = IF error[p] = None THEN "func_result" ELSE "{}"

\* C8 (as claimed): in any process whose run function raised a TorchBatchError,
\* the wrapper returns the empty map and exactly one capture was written, under
\* error-batches/<stem of the serialization directory>.
C8_ExactlyOneCapture ==
    \A p \in Procs :
        (pc[p] = "done" /\ error[p] = "TorchBatchError") =>
            /\ outcome[p] = "returned"
            /\ result[p] = "{}"
            /\ persisted[p] = 1
            /\ \E f \in DOMAIN captures : f.dir = stem(serialization_dir)

\* C9 (as claimed): a capture never overwrites a prior one: the job has as many
\* capture files as captures were persisted for it.
C9_CaptureNeverOverwrites ==
    Cardinality(DOMAIN captures) = SumOver(persisted, Procs)

\* C10: no process of process_rank other than 0 packs the archive or calls the
\* tracker (init, log, save, finish); the process of rank 0 packs only if the
\* best-model marker exists, and without a pack no archive file appears.
C10_PrimaryOnlySideEffects ==
    /\ \A p \in Procs \ {0} : events[p] = <<>> /\ "wandb.log" \notin sunk[p]
    /\ "archive_model" \in Range(events[0]) => BestModel \in fs
    /\ "archive_model" \notin Range(events[0]) => \A o \in OutPaths : archives[o] = NoFile

\* C10 witness: every process has ended; process 0 initialised the tracker,
\* logged, packed, saved and finished; another process, whose gate rank is 0
\* too, ran log_metrics after a failed or successful run and called no tracker
C10_Witness ==
    /\ \A p \in Procs : pc[p] = "done"
    /\ events[0] = <<"wandb.init", "archive_model", "wandb.save", "wandb.finish">>
    /\ "wandb.log" \in sunk[0]
    /\ archives[DefaultArchive].complete
    /\ \E p \in Procs \ {0} :
          rank[p] = 0 /\ "console.metrics" \in sunk[p] /\ error[p] # None

\* the members of the archive whose destination lies outside the temporary
\* directory of the call
Escaping(input, tmp) ==
    {i \in DOMAIN input.members : ~Descendant(tmp, join(tmp, input.members[i]))}

\* C3 (as claimed): an archive with a member whose destination resolves outside
\* the temporary directory is rejected with nothing written anywhere, and
\* whenever members were extracted each of them lies below that directory.
C3_TraversalRejected ==
    (up.state = "done" /\ up.input.kind = "tar") =>
        /\ Escaping(up.input, up.tmp) # {} =>
              up.call.outcome = "raised" /\ up.call.extracted = {}
        /\ \A f \in up.call.extracted : Descendant(up.tmp, f)

\* C6 (as claimed): after load_archive on a non-directory path, however it
\* ended, the temporary directory it created is gone; on a directory path no
\* temporary directory is created and the directory stays.
C6_TempDirAlwaysRemoved ==
    up.state = "done" =>
        IF up.input.kind = "dir"
        THEN ~up.call.created /\ up.call.dir_exists
        ELSE up.call.created /\ ~up.call.temp_exists

\* C11: round trip.  When load_archive reads the archive that archive_model
\* produced from a well-formed source tree (configuration, vocabulary, weights
\* and metrics all present), it returns, and the configuration and the metrics
\* it returns are those of the source files, the weights and the vocabulary it
\* loads are those that were packed: every artifact is read from the member name
\* it was stored under.
C11_RoundTrip ==
    (/\ up.state = "done"
     /\ up.packed.state = "done"
     /\ PackInputs \subseteq up.packed.files
     /\ up.path = ArchiveFile(up.packed.archive_path)) =>
        /\ up.call.outcome = "returned"
        /\ up.archive.config = from_file(content.config)
        /\ up.archive.metrics = json_load(content.metrics)
        /\ up.archive.model = [weights |-> WeightsFile, vocabulary |-> Vocabulary]

\* C11 witness: an archive packed over a stale file from a tree whose
\* configuration and metrics differ was unpacked, and the metrics returned have
\* two keys while the configuration has one
C11_Witness ==
    /\ up.state = "done"
    /\ up.packed.state = "done"
    /\ PackInputs \subseteq up.packed.files
    /\ up.packed.before[up.path] = StaleFile
    /\ up.path = ArchiveFile(up.packed.archive_path)
    /\ up.call.outcome = "returned"
    /\ content.config # content.metrics
    /\ DOMAIN up.archive.metrics = {"loss", "lr"}
    /\ up.archive.config = [k \in {"lr"} |-> 2]

\* position of the first occurrence of x in seq, 0 if there is none
IndexOf(seq, x) ==
    IF x \in Range(seq) THEN CHOOSE i \in DOMAIN seq : seq[i] = x /\ \A j \in 1 .. (i - 1) : seq[j] # x
    ELSE 0

\* C12 (as claimed): in the process of rank 0, once the wrapper has initialised
\* the tracker, the tracker's finish is eventually called, and exactly once by
\* the time the wrapper has ended, whatever the run function and the pack did;
\* and the upload (save) is issued only after the pack, and only when the pack
\* produced the archive.
C12_FinalizationCompletes ==
    /\ []((pc[0] = "done" /\ "wandb.init" \in Range(events[0])) =>
             Count(events[0], "wandb.finish") = 1)
    /\ []("wandb.save" \in Range(events[0]) =>
             /\ IndexOf(events[0], "archive_model") > 0
             /\ IndexOf(events[0], "archive_model") < IndexOf(events[0], "wandb.save")
             /\ archives[DefaultArchive].complete)
    /\ (("wandb.init" \in Range(events[0])) ~> ("wandb.finish" \in Range(events[0])))

\* C13 (as claimed): the two notions of primary agree.  In every process that
\* runs the wrapper, the rank the gate consults equals the process_rank the
\* wrapper was given, so a rank-gated function acts in the process the wrapper
\* treats as master (process_rank 0) and in no other, whatever the launcher put
\* into the environment.
C13_PrimaryNotionsAgree ==
    \A p \in Procs :
        pc[p] \in {"running", "finally", "done"} =>
            /\ rank[p] = p
            /\ \A c \in calls[p] : c.executed <=> p = 0
            /\ p # 0 => sunk[p] = {} /\ persisted[p] = 0

====
